---- MODULE Spec2Model ----
(***************************************************************************)
(* A model of the semantic-layer query compiler of semantic_layer.py:      *)
(* generate_sql(query, semantic_layer_json) and the helpers it calls.      *)
(*                                                                         *)
(* Text is modelled as TLA+ strings built with \o, in the shapes the       *)
(* f-strings of the source build.  Two kinds of text are kept structured   *)
(* because the code looks inside them:                                     *)
(*   - a requested dimension name is a sequence of tokens, each either     *)
(*     the literal "__week" or a piece that does not contain it, so that   *)
(*     endswith("__week") and replace("__week", "") can be computed;       *)
(*   - a string filter value is a sequence of characters, so that          *)
(*     datetime.strptime(value, "%Y-%m-%d") can be computed.               *)
(* The generated query is kept as its sequence of lines, a line being its  *)
(* leading keyword and the rest; Text joins them as the code does.         *)
(***************************************************************************)
EXTENDS Naturals, Sequences, FiniteSets, TLC

\* ------------------------------------------------------------------ bounds

\* The largest number of entries (metrics + dimensions + filters) of a query.
MaxItems == 3

\* ------------------------------------------------------------ text helpers

RECURSIVE JoinWith(_, _)
\* sep.join(parts)
JoinWith(parts, sep) ==
    IF parts = <<>> THEN ""
    ELSE IF Len(parts) = 1 THEN parts[1]
    ELSE parts[1] \o sep \o JoinWith(Tail(parts), sep)

\* The text of a sequence of characters or of name tokens.
Chars(cs) == JoinWith(cs, "")

Digits == <<"0", "1", "2", "3", "4", "5", "6", "7", "8", "9">>

IsDigit(c) == \E i \in 1..10 : Digits[i] = c

DigitVal(c) == (CHOOSE i \in 1..10 : Digits[i] = c) - 1

RECURSIVE Number(_)
\* int(s) of a sequence of digit characters
Number(cs) ==
    IF cs = <<>> THEN 0
    ELSE 10 * Number(SubSeq(cs, 1, Len(cs) - 1)) + DigitVal(cs[Len(cs)])

\* ------------------------------------------------------------- data model

\* Metric(name, sql, table)
Metric(n, s, t) == [name |-> n, sql |-> s, table |-> t]

\* Dimension(name, sql, table)
Dimension(n, s, t) == [name |-> n, sql |-> s, table |-> t]

\* Join(one, many, join)
Join(o, m, j) == [one |-> o, many |-> m, join |-> j]

\* Filter(field, operator, value)
Filter(f, o, v) == [field |-> f, operator |-> o, value |-> v]

\* A filter value: a Python int, or a Python str kept as its characters.
IntValue(n) == [kind |-> "int", n |-> n, chars |-> <<>>]

StrValue(cs) == [kind |-> "str", n |-> 0, chars |-> cs]

\* f"{value}"
ValueText(v) == IF v.kind = "int" THEN ToString(v.n) ELSE Chars(v.chars)

\* An Optional[List]: None, or a list.
None == [none |-> TRUE, items |-> <<>>]

Some(items) == [none |-> FALSE, items |-> items]

\* The truth value Python gives an Optional[List]: None and [] are false.
Truthy(opt) == ~opt.none /\ opt.items # <<>>

\* SemanticLayer(metrics, dimensions, joins), as parse_semantic_layer builds
\* it: dimensions and joins are None when the key is absent from the JSON.
parse_semantic_layer(json) ==
    [metrics    |-> json.metrics,
     dimensions |-> IF json.has_dimensions THEN Some(json.dimensions) ELSE None,
     joins      |-> IF json.has_joins THEN Some(json.joins) ELSE None]

\* next((x for x in items if x.name == name), None): the index of the first
\* entry of that name, 0 for None.
FirstNamed(items, name) ==
    IF \E i \in 1..Len(items) : items[i].name = name
    THEN CHOOSE i \in 1..Len(items) :
            /\ items[i].name = name
            /\ \A j \in 1..(i - 1) : items[j].name # name
    ELSE 0

get_qualified_field(field, layer) ==
    LET dims == layer.dimensions.items
        d == FirstNamed(dims, field)
        m == FirstNamed(layer.metrics, field)
    IN  IF Truthy(layer.dimensions) /\ d # 0
        THEN dims[d].table \o "." \o dims[d].sql
        ELSE IF m # 0
        THEN layer.metrics[m].table \o "." \o layer.metrics[m].sql
        ELSE field

\* datetime.strptime(value, "%Y-%m-%d") succeeds.  The format's pattern is
\* four digits, "-", a month field, "-", a day field, and nothing after; the
\* parsed year, month and day must then make a date (year 0 does not).
MonthField(cs) ==
    \/ Len(cs) = 1 /\ IsDigit(cs[1]) /\ cs[1] # "0"
    \/ Len(cs) = 2 /\ cs[1] = "0" /\ IsDigit(cs[2]) /\ cs[2] # "0"
    \/ Len(cs) = 2 /\ cs[1] = "1" /\ cs[2] \in {"0", "1", "2"}

DayField(cs) ==
    \/ Len(cs) = 1 /\ IsDigit(cs[1]) /\ cs[1] # "0"
    \/ Len(cs) = 2 /\ cs[1] = "3" /\ cs[2] \in {"0", "1"}
    \/ Len(cs) = 2 /\ cs[1] \in {"1", "2"} /\ IsDigit(cs[2])
    \/ Len(cs) = 2 /\ cs[1] \in {"0", " "} /\ IsDigit(cs[2]) /\ cs[2] # "0"

DayNumber(cs) == IF cs[1] = " " THEN Number(Tail(cs)) ELSE Number(cs)

IsLeap(y) == y % 4 = 0 /\ (y % 100 # 0 \/ y % 400 = 0)

DaysInMonth(y, m) ==
    IF m = 2 THEN (IF IsLeap(y) THEN 29 ELSE 28)
    ELSE IF m \in {4, 6, 9, 11} THEN 30 ELSE 31

strptime_Ymd(cs) ==
    /\ Len(cs) >= 8
    /\ \A i \in 1..4 : IsDigit(cs[i])
    /\ cs[5] = "-"
    /\ \E k \in 7..(Len(cs) - 1) :
          /\ cs[k] = "-"
          /\ MonthField(SubSeq(cs, 6, k - 1))
          /\ DayField(SubSeq(cs, k + 1, Len(cs)))
          /\ Number(SubSeq(cs, 1, 4)) >= 1
          /\ DayNumber(SubSeq(cs, k + 1, Len(cs)))
                <= DaysInMonth(Number(SubSeq(cs, 1, 4)), Number(SubSeq(cs, 6, k - 1)))

\* ------------------------------------------------- requested dimension names

Week == "__week"

\* dim_name.endswith("__week")
EndsWithWeek(tokens) == tokens # <<>> /\ tokens[Len(tokens)] = Week

IsNotWeek(tok) == tok # Week

\* dim_name.replace("__week", ""): every occurrence goes, not only the suffix.
ReplaceWeek(tokens) == Chars(SelectSeq(tokens, IsNotWeek))

\* The schema name a requested dimension is looked up under.
LookupName(tokens) ==
    IF EndsWithWeek(tokens) THEN ReplaceWeek(tokens) ELSE Chars(tokens)

\* One entry of dimension_sql_parts: the SELECT item of a resolved dimension.
DimensionSqlPart(tokens, d) ==
    IF EndsWithWeek(tokens)
    THEN "DATE_TRUNC(" \o d.table \o "." \o d.sql \o ", WEEK) AS " \o Chars(tokens)
    ELSE d.table \o "." \o d.sql \o " AS " \o Chars(tokens)

\* A mutant of GroupByPart: the week truncation is left out of GROUP BY.
GroupByPart_NoWeek(tokens, d) == d.table \o "." \o d.sql

\* One entry of group_by_parts: the GROUP BY item of a resolved dimension.
GroupByPart(tokens, d) ==
    IF EndsWithWeek(tokens)
    THEN "DATE_TRUNC(" \o d.table \o "." \o d.sql \o ", WEEK)"
    ELSE d.table \o "." \o d.sql

\* --------------------------------------------------------- generated lines

Line(kw, body) == [kw |-> kw, body |-> body]

LineText(l) == l.kw \o " " \o l.body

\* The lines joined by "\n", which is what sql.strip() returns of the
\* "\n"-terminated lines the code appends.
Text(lines) == JoinWith([i \in 1..Len(lines) |-> LineText(lines[i])], "\n")

\* ------------------------------------------------------------------ inputs

total_revenue == Metric("total_revenue", "SUM(sale_price)", "order_items")

\* A metric and a dimension of one name: the model enforces no uniqueness.
created_metric == Metric("created", "MAX(created_at)", "orders")

status == Dimension("status", "status", "order_items")

created == Dimension("created", "created_at", "orders")

gender == Dimension("gender", "gender", "users")

orders_items == Join("orders", "order_items", "order_items.order_id = orders.order_id")

users_orders == Join("users", "orders", "orders.user_id = users.id")

users_events == Join("users", "events", "events.user_id = users.id")

SemanticJson(ms, hasD, ds, hasJ, js) ==
    [metrics |-> ms, has_dimensions |-> hasD, dimensions |-> ds,
     has_joins |-> hasJ, joins |-> js]

\* The schemas compiled against: metrics alone; dimensions of one table and an
\* empty join list; one join; a chain of two joins; a join between tables that
\* no metric is on.
Schemas ==
    { SemanticJson(<<total_revenue, created_metric>>, FALSE, <<>>, FALSE, <<>>),
      SemanticJson(<<total_revenue, created_metric>>, TRUE, <<status>>, TRUE, <<>>),
      SemanticJson(<<total_revenue, created_metric>>, TRUE,
                   <<status, created, gender>>, TRUE, <<orders_items>>),
      SemanticJson(<<total_revenue, created_metric>>, TRUE,
                   <<status, created, gender>>, TRUE, <<users_orders, orders_items>>),
      SemanticJson(<<total_revenue, created_metric>>, TRUE,
                   <<status, created, gender>>, TRUE, <<users_events>>) }

MetricNames == {"total_revenue", "created", "no_such_metric"}

DimensionNames == {<<"status">>, <<"gender">>, <<"created", Week>>}

FilterValues ==
    { IntValue(1000),
      StrValue(<<"2", "0", "2", "4", "-", "0", "1", "-", "0", "1">>),
      StrValue(<<"2", "0", "2", "4", "-", "0", "2", "-", "3", "0">>) }

Filters ==
    { Filter(f, ">=", v) : f \in {"total_revenue", "created", "gender"},
                           v \in FilterValues }

\* ------------------------------------------------------------------- state

VARIABLES
    semantic_layer_json,   \* generate_sql's argument: the schema
    query,                 \* generate_sql's argument: the query
    pc,                    \* where the call is: a block of generate_sql, "done", "raised"
    metric_sql_parts,
    tables,
    dimension_sql_parts,
    sql,                   \* the lines appended so far
    where_conditions,
    having_conditions,
    result,                \* what the call returned, if it did
    error,                 \* the exception the call raised, if it did
    recompiled,            \* whether this is the second call on the same arguments
    first                  \* result and error of the first call, once it is over

vars ==
    <<semantic_layer_json, query, pc, metric_sql_parts, tables,
      dimension_sql_parts, sql, where_conditions, having_conditions, result,
      error, recompiled, first>>

semantic_layer == parse_semantic_layer(semantic_layer_json)

NoResult == [returned |-> FALSE, text |-> ""]

Returned(text) == [returned |-> TRUE, text |-> text]

Locals ==
    /\ pc = "metrics"
    /\ metric_sql_parts = <<>>
    /\ tables = {}
    /\ dimension_sql_parts = <<>>
    /\ sql = <<>>
    /\ where_conditions = <<>>
    /\ having_conditions = <<>>
    /\ result = NoResult
    /\ error = ""

Init ==
    /\ semantic_layer_json \in Schemas
    /\ \E a \in 0..MaxItems :
       \E b \in 0..(MaxItems - a) :
       \E c \in 0..(MaxItems - a - b) :
       \E ms \in [1..a -> MetricNames], ds \in [1..b -> DimensionNames],
          fs \in [1..c -> Filters] :
       \E hasD \in {TRUE, b > 0}, hasF \in {TRUE, c > 0} :
          query = [metrics |-> ms, has_dimensions |-> hasD, dimensions |-> ds,
                   has_filters |-> hasF, filters |-> fs]
    /\ Locals
    /\ recompiled = FALSE
    /\ first = [result |-> NoResult, error |-> ""]

\* ------------------------------------------------- generate_sql: the metrics

\* The schema's metric of that name (0 for None).
LookupMetric(name) == FirstNamed(semantic_layer.metrics, name)

\* The place in requested_metrics of the first name the schema lacks (0: none).
FirstMissing ==
    LET missing == {i \in 1..Len(query.metrics) : LookupMetric(query.metrics[i]) = 0}
    IN  IF missing = {} THEN 0
        ELSE CHOOSE i \in missing : \A j \in missing : i <= j

MetricSqlPart(m) == m.sql \o " AS " \o m.name

\* The loop over requested_metrics, run over its first n names.
MetricSqlParts(n) ==
    [i \in 1..n |->
        MetricSqlPart(semantic_layer.metrics[LookupMetric(query.metrics[i])])]

MetricTables(n) ==
    {semantic_layer.metrics[LookupMetric(query.metrics[i])].table : i \in 1..n}

\* Every requested metric is in the schema.
ResolveMetrics ==
    /\ pc = "metrics"
    /\ FirstMissing = 0
    /\ metric_sql_parts' = MetricSqlParts(Len(query.metrics))
    /\ tables' = MetricTables(Len(query.metrics))
    /\ pc' = "dimensions"
    /\ UNCHANGED <<semantic_layer_json, query, dimension_sql_parts, sql,
                   where_conditions, having_conditions, result, error,
                   recompiled, first>>

\* A mutant of RaiseMetricNotFound: a metric the schema lacks is skipped, the
\* way a dimension it lacks is, instead of raising.
RaiseMetricNotFound_Skips ==
    /\ pc = "metrics"
    /\ FirstMissing # 0
    /\ LET Found(n) == LookupMetric(n) # 0
           found == SelectSeq(query.metrics, Found)
       IN  /\ metric_sql_parts' =
                 [i \in 1..Len(found) |->
                     MetricSqlPart(semantic_layer.metrics[LookupMetric(found[i])])]
           /\ tables' =
                 {semantic_layer.metrics[LookupMetric(found[i])].table :
                     i \in 1..Len(found)}
    /\ pc' = "dimensions"
    /\ UNCHANGED <<semantic_layer_json, query, dimension_sql_parts, sql,
                   where_conditions, having_conditions, result, error,
                   recompiled, first>>

\* raise ValueError(f"Metric {metric_name} not found in semantic layer"), at the
\* first requested name the schema lacks.
RaiseMetricNotFound ==
    /\ pc = "metrics"
    /\ FirstMissing # 0
    /\ metric_sql_parts' = MetricSqlParts(FirstMissing - 1)
    /\ tables' = MetricTables(FirstMissing - 1)
    /\ error' = "ValueError: Metric " \o query.metrics[FirstMissing]
                    \o " not found in semantic layer"
    /\ pc' = "raised"
    /\ UNCHANGED <<semantic_layer_json, query, dimension_sql_parts, sql,
                   where_conditions, having_conditions, result, recompiled, first>>

\* ---------------------------------------------- generate_sql: the dimensions

\* The schema's dimension a requested name resolves to (0 for None).  The code
\* iterates semantic_layer.dimensions here, which must not be None.
LookupDimension(tokens) ==
    FirstNamed(semantic_layer.dimensions.items, LookupName(tokens))

IsResolved(tokens) == LookupDimension(tokens) # 0

\* The requested dimensions that are in the schema, in the query's order.
ResolvedDimensions == SelectSeq(query.dimensions, IsResolved)

\* The loop body runs, so semantic_layer.dimensions is iterated.
DimensionLoopRuns == query.has_dimensions /\ query.dimensions # <<>>

\* The dimension loop, then the SELECT line.
ResolveDimensions ==
    /\ pc = "dimensions"
    /\ ~(DimensionLoopRuns /\ semantic_layer.dimensions.none)
    /\ LET rs == IF query.has_dimensions THEN ResolvedDimensions ELSE <<>>
           dim(i) == semantic_layer.dimensions.items[LookupDimension(rs[i])]
           parts == [i \in 1..Len(rs) |-> DimensionSqlPart(rs[i], dim(i))]
       IN  /\ dimension_sql_parts' = parts
           /\ tables' = tables \cup {dim(i).table : i \in 1..Len(rs)}
           /\ sql' = <<Line("SELECT", JoinWith(parts \o metric_sql_parts, ", "))>>
    /\ pc' = "from"
    /\ UNCHANGED <<semantic_layer_json, query, metric_sql_parts,
                   where_conditions, having_conditions, result, error,
                   recompiled, first>>

\* The generator over semantic_layer.dimensions when that is None.
RaiseDimensionsNone ==
    /\ pc = "dimensions"
    /\ DimensionLoopRuns
    /\ semantic_layer.dimensions.none
    /\ error' = "TypeError: 'NoneType' object is not iterable"
    /\ pc' = "raised"
    /\ UNCHANGED <<semantic_layer_json, query, metric_sql_parts, tables,
                   dimension_sql_parts, sql, where_conditions,
                   having_conditions, result, recompiled, first>>

\* ------------------------------------------------ generate_sql: FROM and JOIN

\* if semantic_layer.joins and len(tables) > 1
UsesJoins == Truthy(semantic_layer.joins) /\ Cardinality(tables) > 1

join_tables ==
    {semantic_layer.joins.items[i].one : i \in 1..Len(semantic_layer.joins.items)}
    \cup {semantic_layer.joins.items[i].many : i \in 1..Len(semantic_layer.joins.items)}

\* The sets next(iter(...)) draws from.  Their iteration order is that of a
\* Python set of str, which the string hash seed of the process decides: any
\* member can come first.
MainTableCandidates == IF UsesJoins THEN tables \cap join_tables ELSE tables

\* if join.one in tables or join.many in tables
JoinIsEmitted(join) == join.one \in tables \/ join.many \in tables

\* A mutant of JoinLine: the many side is joined whatever the anchor is.
JoinLine_AlwaysMany(join, main_table) ==
    Line("JOIN", join.many \o " ON " \o join.join)

\* The JOIN line of an emitted join.
JoinLine(join, main_table) ==
    IF join.one = main_table
    THEN Line("JOIN", join.many \o " ON " \o join.join)
    ELSE Line("JOIN", join.one \o " ON " \o join.join)

\* The loop over semantic_layer.joins.
JoinLines(main_table) ==
    LET emitted == SelectSeq(semantic_layer.joins.items, JoinIsEmitted)
    IN  [i \in 1..Len(emitted) |-> JoinLine(emitted[i], main_table)]

BuildFromJoin ==
    /\ pc = "from"
    /\ UsesJoins
    /\ \E main_table \in MainTableCandidates :
          sql' = sql \o <<Line("FROM", main_table)>> \o JoinLines(main_table)
    /\ pc' = "filters"
    /\ UNCHANGED <<semantic_layer_json, query, metric_sql_parts, tables,
                   dimension_sql_parts, where_conditions, having_conditions,
                   result, error, recompiled, first>>

BuildFromSingle ==
    /\ pc = "from"
    /\ ~UsesJoins
    /\ \E main_table \in MainTableCandidates :
          sql' = sql \o <<Line("FROM", main_table)>>
    /\ pc' = "filters"
    /\ UNCHANGED <<semantic_layer_json, query, metric_sql_parts, tables,
                   dimension_sql_parts, where_conditions, having_conditions,
                   result, error, recompiled, first>>

\* next(iter(s)) of an empty set.
RaiseStopIteration ==
    /\ pc = "from"
    /\ MainTableCandidates = {}
    /\ error' = "StopIteration"
    /\ pc' = "raised"
    /\ UNCHANGED <<semantic_layer_json, query, metric_sql_parts, tables,
                   dimension_sql_parts, sql, where_conditions,
                   having_conditions, result, recompiled, first>>

\* --------------------------------------------------- generate_sql: filters

\* A mutant of IsMetricFilter: membership in the schema's metrics, not in the
\* query's.
IsMetricFilter_InSchema(f) == LookupMetric(f.field) # 0

\* if filter_obj.field in requested_metrics
IsMetricFilter(f) == \E i \in 1..Len(query.metrics) : query.metrics[i] = f.field

HavingCondition(f) == f.field \o " " \o f.operator \o " " \o ValueText(f.value)

\* A mutant of IsDimensionString: the field is looked for among the metrics.
IsDimensionString_AmongMetrics(f) ==
    /\ f.value.kind = "str"
    /\ \E i \in 1..Len(semantic_layer.metrics) :
          semantic_layer.metrics[i].name = f.field

\* isinstance(value, str) and field in [d.name for d in dimensions or []]
IsDimensionString(f) ==
    /\ f.value.kind = "str"
    /\ \E i \in 1..Len(semantic_layer.dimensions.items) :
          semantic_layer.dimensions.items[i].name = f.field

\* The date branch is taken and does not fall through its except.
IsDateFilter(f) == IsDimensionString(f) /\ strptime_Ymd(f.value.chars)

DateCondition(f) ==
    "DATE(" \o get_qualified_field(f.field, semantic_layer) \o ") " \o f.operator
        \o " DATE('" \o ValueText(f.value) \o "')"

\* A regular filter: numbers bare, anything else in single quotes.
RegularCondition(f) ==
    IF f.value.kind = "int"
    THEN get_qualified_field(f.field, semantic_layer) \o " " \o f.operator
            \o " " \o ValueText(f.value)
    ELSE get_qualified_field(f.field, semantic_layer) \o " " \o f.operator
            \o " '" \o ValueText(f.value) \o "'"

RECURSIVE FilterLoop(_, _)
\* The loop over query["filters"]: fs is what is left of the list, acc the two
\* lists as built so far.
FilterLoop(fs, acc) ==
    IF fs = <<>> THEN acc
    ELSE LET f == Head(fs)
         IN  IF IsMetricFilter(f)
             THEN FilterLoop(Tail(fs),
                     [acc EXCEPT !.having = Append(@, HavingCondition(f))])
             ELSE IF IsDateFilter(f)
             THEN FilterLoop(Tail(fs),
                     [acc EXCEPT !.where = Append(@, DateCondition(f))])
             ELSE FilterLoop(Tail(fs),
                     [acc EXCEPT !.where = Append(@, RegularCondition(f))])

\* The filter loop, then the WHERE line.
BuildFilters ==
    /\ pc = "filters"
    /\ LET out == FilterLoop(IF query.has_filters THEN query.filters ELSE <<>>,
                             [where |-> <<>>, having |-> <<>>])
       IN  /\ where_conditions' = out.where
           /\ having_conditions' = out.having
           /\ sql' = IF out.where # <<>>
                     THEN Append(sql, Line("WHERE", JoinWith(out.where, " AND ")))
                     ELSE sql
    /\ pc' = "group"
    /\ UNCHANGED <<semantic_layer_json, query, metric_sql_parts, tables,
                   dimension_sql_parts, result, error, recompiled, first>>

\* ------------------------------------- generate_sql: GROUP BY, HAVING, return

\* The second loop over query['dimensions'].
group_by_parts ==
    [i \in 1..Len(ResolvedDimensions) |->
        GroupByPart(ResolvedDimensions[i],
            semantic_layer.dimensions.items[LookupDimension(ResolvedDimensions[i])])]

\* if dimension_sql_parts
HasGroupBy == dimension_sql_parts # <<>>

GroupByLines ==
    IF HasGroupBy
    THEN <<Line("GROUP BY", JoinWith(group_by_parts, ", "))>>
    ELSE <<>>

HavingLines ==
    IF having_conditions # <<>>
    THEN <<Line("HAVING", JoinWith(having_conditions, " AND "))>>
    ELSE <<>>

Finish ==
    /\ pc = "group"
    /\ sql' = sql \o GroupByLines \o HavingLines
    /\ result' = Returned(Text(sql'))
    /\ pc' = "done"
    /\ UNCHANGED <<semantic_layer_json, query, metric_sql_parts, tables,
                   dimension_sql_parts, where_conditions, having_conditions,
                   error, recompiled, first>>

\* ------------------------------------------------------------- the caller

\* The caller compiles the same query against the same schema once more,
\* possibly in another process.
Recompile ==
    /\ pc \in {"done", "raised"}
    /\ ~recompiled
    /\ recompiled' = TRUE
    /\ first' = [result |-> result, error |-> error]
    /\ pc' = "metrics"
    /\ metric_sql_parts' = <<>>
    /\ tables' = {}
    /\ dimension_sql_parts' = <<>>
    /\ sql' = <<>>
    /\ where_conditions' = <<>>
    /\ having_conditions' = <<>>
    /\ result' = NoResult
    /\ error' = ""
    /\ UNCHANGED <<semantic_layer_json, query>>

Next ==
    \/ ResolveMetrics
    \/ RaiseMetricNotFound
    \/ ResolveDimensions
    \/ RaiseDimensionsNone
    \/ BuildFromJoin
    \/ BuildFromSingle
    \/ RaiseStopIteration
    \/ BuildFilters
    \/ Finish

Spec == Init /\ [][Next]_vars

\* The same, with the caller compiling every input a second time.
SpecTwice == Init /\ [][Next \/ Recompile]_vars

\* ======================================================================
\* The claims.  What follows reads the state above; none of it models code.
\* ======================================================================

RequestedMetricNames == {query.metrics[i] : i \in 1..Len(query.metrics)}

SchemaMetricNames ==
    {semantic_layer_json.metrics[i].name : i \in 1..Len(semantic_layer_json.metrics)}

SchemaDimensionNames ==
    IF semantic_layer_json.has_dimensions
    THEN {semantic_layer_json.dimensions[i].name :
             i \in 1..Len(semantic_layer_json.dimensions)}
    ELSE {}

QueryDimensions == IF query.has_dimensions THEN query.dimensions ELSE <<>>

QueryFilters == IF query.has_filters THEN query.filters ELSE <<>>

AllRequestedMetricsExist == RequestedMetricNames \subseteq SchemaMetricNames

\* The lines of the output so far that start with a keyword.
LinesOf(kw) == LET Is(l) == l.kw = kw IN SelectSeq(sql, Is)

FromCompleted == pc \in {"filters", "group", "done"}

\* The tables the FROM line and the JOIN lines name.
TablesBroughtIn ==
    {LinesOf("FROM")[i].body : i \in 1..Len(LinesOf("FROM"))}
    \cup {t \in tables \cup join_tables :
            \E i \in 1..Len(LinesOf("JOIN")) :
            \E k \in 1..Len(semantic_layer_json.joins) :
               LinesOf("JOIN")[i].body
                  = t \o " ON " \o semantic_layer_json.joins[k].join}

\* ---------------------------------------------------------------------- C1
\* C1: whenever a requested metric name is not the name of a schema metric,
\* the call never gets past the metric loop: it ends raising the ValueError
\* "Metric <name> not found in semantic layer" for a requested name, returns
\* nothing and has appended no line, whatever else the query holds.
C1_UnknownMetricAborts ==
    ~AllRequestedMetricsExist =>
        /\ pc \in {"metrics", "raised"}
        /\ ~result.returned
        /\ sql = <<>>
        /\ pc = "raised" =>
              \E n \in RequestedMetricNames \ SchemaMetricNames :
                 error = "ValueError: Metric " \o n \o " not found in semantic layer"

\* An unknown metric after a known one, in a query that also has a filter, and
\* the call has raised.
C1_Witness ==
    /\ pc = "raised"
    /\ Len(query.metrics) = 2
    /\ query.metrics[1] \in SchemaMetricNames
    /\ query.metrics[2] \notin SchemaMetricNames
    /\ QueryFilters # <<>>
    /\ metric_sql_parts # <<>>

\* ---------------------------------------------------------------------- C2
\* C2: once the filters are built, the HAVING conditions are the renderings of
\* exactly the filters whose field is a requested metric name, the WHERE
\* conditions the renderings of exactly the others, both in the query's order
\* (so each filter is in one of the two and only one); the finished output has
\* a HAVING line, and a WHERE line, holding just those conditions.
C2_FilterRouting ==
    LET OnRequested(f) == f.field \in RequestedMetricNames
        Other(f) == f.field \notin RequestedMetricNames
        hs == SelectSeq(QueryFilters, OnRequested)
        ws == SelectSeq(QueryFilters, Other)
    IN  pc \in {"group", "done"} =>
        /\ Len(having_conditions) = Len(hs)
        /\ Len(where_conditions) = Len(ws)
        /\ \A i \in 1..Len(hs) : having_conditions[i] = HavingCondition(hs[i])
        /\ \A i \in 1..Len(ws) :
              where_conditions[i] \in {DateCondition(ws[i]), RegularCondition(ws[i])}
        /\ LinesOf("WHERE") =
              IF ws = <<>> THEN <<>>
              ELSE <<Line("WHERE", JoinWith(where_conditions, " AND "))>>
        /\ pc = "done" =>
              LinesOf("HAVING") =
                 IF hs = <<>> THEN <<>>
                 ELSE <<Line("HAVING", JoinWith(having_conditions, " AND "))>>

\* A finished compile of two filters, one on a requested metric and one on a
\* schema metric the query does not request: the first is in HAVING, the second
\* in WHERE.
C2_Witness ==
    /\ pc = "done"
    /\ Len(QueryFilters) = 2
    /\ QueryFilters[1].field \in RequestedMetricNames
    /\ QueryFilters[2].field \in SchemaMetricNames \ RequestedMetricNames
    /\ Len(having_conditions) = 1
    /\ Len(where_conditions) = 1

\* ---------------------------------------------------------------------- C3
\* A value of the exact shape YYYY-MM-DD whose year, month and day make a
\* calendar date.
IsCalendarDate(cs) ==
    /\ Len(cs) = 10
    /\ \A i \in {1, 2, 3, 4, 6, 7, 9, 10} : IsDigit(cs[i])
    /\ cs[5] = "-" /\ cs[8] = "-"
    /\ Number(SubSeq(cs, 1, 4)) >= 1
    /\ Number(SubSeq(cs, 6, 7)) \in 1..12
    /\ Number(SubSeq(cs, 9, 10)) >= 1
    /\ Number(SubSeq(cs, 9, 10))
          <= DaysInMonth(Number(SubSeq(cs, 1, 4)), Number(SubSeq(cs, 6, 7)))

\* A filter on a schema dimension whose value is a calendar date as a string.
IsDateOnDimension(f) ==
    /\ f.field \in SchemaDimensionNames
    /\ f.value.kind = "str"
    /\ IsCalendarDate(f.value.chars)

\* DATE(<table>.<sql>) <operator> DATE('<value>'), for the first schema
\* dimension of the filter's name.
DateComparison(f) ==
    LET d == semantic_layer_json.dimensions[
                FirstNamed(semantic_layer_json.dimensions, f.field)]
    IN  "DATE(" \o d.table \o "." \o d.sql \o ") " \o f.operator
           \o " DATE('" \o Chars(f.value.chars) \o "')"

\* The conditions of the finished output, WHERE's and HAVING's.
RenderedConditions ==
    {where_conditions[i] : i \in 1..Len(where_conditions)}
    \cup {having_conditions[i] : i \in 1..Len(having_conditions)}

\* C3, as claimed: in a finished output every filter on a schema dimension
\* whose value is a YYYY-MM-DD date is rendered as the DATE(...) comparison.
C3_DateFilterAlwaysDate ==
    pc = "done" =>
        \A i \in 1..Len(QueryFilters) :
            IsDateOnDimension(QueryFilters[i]) =>
                DateComparison(QueryFilters[i]) \in RenderedConditions

\* C3, amended: the same for the filters whose field is not a requested metric
\* name, and then the DATE(...) comparison is the filter's WHERE condition: the
\* k-th WHERE condition for the k-th filter that is not on a requested metric.
C3_DateFilterOffMetrics ==
    LET Other(f) == f.field \notin RequestedMetricNames
    IN  pc = "done" =>
        \A i \in 1..Len(QueryFilters) :
            (IsDateOnDimension(QueryFilters[i]) /\ Other(QueryFilters[i])) =>
                LET k == Len(SelectSeq(SubSeq(QueryFilters, 1, i), Other))
                IN  /\ k <= Len(where_conditions)
                    /\ where_conditions[k] = DateComparison(QueryFilters[i])

\* A finished compile with a date filter on a dimension that is not a requested
\* metric, after a filter that is on a requested metric.
C3_Witness ==
    /\ pc = "done"
    /\ Len(QueryFilters) = 2
    /\ QueryFilters[1].field \in RequestedMetricNames
    /\ QueryFilters[2].field \notin RequestedMetricNames
    /\ IsDateOnDimension(QueryFilters[2])
    /\ where_conditions = <<DateComparison(QueryFilters[2])>>

\* ---------------------------------------------------------------------- C4
\* A requested dimension that the schema does not have (under its base name,
\* for a "__week" name).
HasAbsentDimension ==
    \E i \in 1..Len(QueryDimensions) :
        LookupName(QueryDimensions[i]) \notin SchemaDimensionNames

\* C4, as claimed: when every requested metric exists and some requested
\* dimension is absent from the schema, the call raises nothing; finished, it
\* has returned a query whose SELECT and GROUP BY leave that dimension out.
C4_AbsentDimensionDropped ==
    (AllRequestedMetricsExist /\ HasAbsentDimension) =>
        /\ pc # "raised"
        /\ pc = "done" =>
              /\ result.returned
              /\ Len(dimension_sql_parts)
                    = Cardinality({i \in 1..Len(QueryDimensions) :
                         LookupName(QueryDimensions[i]) \in SchemaDimensionNames})

\* ---------------------------------------------------------------------- C5
\* C5, as claimed: a second compile of the same query against the same schema
\* returns the text the first one returned.
C5_SameOutputTwice ==
    (recompiled /\ pc = "done" /\ first.result.returned) =>
        result.text = first.result.text

\* ---------------------------------------------------------------------- C6
\* The schema declares exactly one join, between two tables, and the tables of
\* the resolved metrics and dimensions are just those two.
OneJoinSpanned ==
    /\ semantic_layer_json.has_joins
    /\ Len(semantic_layer_json.joins) = 1
    /\ semantic_layer_json.joins[1].one # semantic_layer_json.joins[1].many
    /\ tables = {semantic_layer_json.joins[1].one, semantic_layer_json.joins[1].many}

\* C6: in that case the output, from the FROM block on, has exactly one FROM
\* line and exactly one JOIN line; FROM names one endpoint of the join, JOIN
\* names the other one, and is followed by " ON " and the declared join text.
C6_OneFromOneJoin ==
    (FromCompleted /\ OneJoinSpanned) =>
        LET j == semantic_layer_json.joins[1]
            from == LinesOf("FROM")
            join == LinesOf("JOIN")
        IN  /\ Len(from) = 1
            /\ Len(join) = 1
            /\ from[1].body \in {j.one, j.many}
            /\ join[1].body =
                  (IF from[1].body = j.one THEN j.many ELSE j.one)
                     \o " ON " \o j.join

\* A finished compile over the two tables of the one join, anchored at the
\* join's many side.
C6_Witness ==
    /\ pc = "done"
    /\ OneJoinSpanned
    /\ LinesOf("FROM")[1].body = semantic_layer_json.joins[1].many

\* ---------------------------------------------------------------------- C7
\* The requested dimensions the schema has, in the query's order.
SelectedDimensions ==
    LET InSchema(tokens) == LookupName(tokens) \in SchemaDimensionNames
    IN  SelectSeq(QueryDimensions, InSchema)

\* '<table>.<sql>', or 'DATE_TRUNC(<table>.<sql>, WEEK)' for a "__week" name.
GroupingExpr(tokens) ==
    LET d == semantic_layer_json.dimensions[
                FirstNamed(semantic_layer_json.dimensions, LookupName(tokens))]
    IN  IF tokens[Len(tokens)] = "__week"
        THEN "DATE_TRUNC(" \o d.table \o "." \o d.sql \o ", WEEK)"
        ELSE d.table \o "." \o d.sql

\* C7: a finished output has a GROUP BY line exactly when a requested dimension
\* was resolved into the SELECT list, and never two; its items are, in order
\* and joined by ", ", one per selected dimension: the expression of that
\* dimension, which is the dimension's SELECT item less its " AS <name>".
C7_GroupByMatchesSelect ==
    pc = "done" =>
        LET gb == LinesOf("GROUP BY")
            exprs == [i \in 1..Len(SelectedDimensions) |->
                         GroupingExpr(SelectedDimensions[i])]
        IN  /\ Len(gb) = (IF dimension_sql_parts # <<>> THEN 1 ELSE 0)
            /\ Len(dimension_sql_parts) = Len(SelectedDimensions)
            /\ \A i \in 1..Len(SelectedDimensions) :
                  dimension_sql_parts[i]
                     = exprs[i] \o " AS " \o Chars(SelectedDimensions[i])
            /\ gb # <<>> => gb[1].body = JoinWith(exprs, ", ")

\* A finished compile that selected a plain and a "__week" dimension and
\* grouped by both.
C7_Witness ==
    /\ pc = "done"
    /\ Len(SelectedDimensions) = 2
    /\ \E i, k \in 1..2 :
          /\ EndsWithWeek(SelectedDimensions[i])
          /\ ~EndsWithWeek(SelectedDimensions[k])
    /\ Len(LinesOf("GROUP BY")) = 1
    /\ query.metrics # <<>>

\* A finished compile whose requested dimensions were all dropped: no GROUP BY.
C7_WitnessNone ==
    /\ pc = "done"
    /\ QueryDimensions # <<>>
    /\ SelectedDimensions = <<>>
    /\ LinesOf("GROUP BY") = <<>>

\* ---------------------------------------------------------------------- C8
\* The query names a dimension while the schema declares none.
DimensionsUndeclared ==
    QueryDimensions # <<>> /\ ~semantic_layer_json.has_dimensions

\* C8, as claimed, for the inputs the dimension loop gets through: when the
\* query requests at least one metric and all of them exist, the call raises
\* nothing, and from the FROM block on the output has exactly one FROM line,
\* naming a required table.
C8_FromAlwaysEmitted ==
    (query.metrics # <<>> /\ AllRequestedMetricsExist /\ ~DimensionsUndeclared) =>
        /\ pc # "raised"
        /\ FromCompleted =>
              /\ Len(LinesOf("FROM")) = 1
              /\ LinesOf("FROM")[1].body \in tables

\* ---------------------------------------------------------------------- C9
\* C9, as claimed, for the schemas whose joins reach every required table: in
\* a finished output every required table is named by FROM or by a JOIN.
C9_RequiredTablesBroughtIn ==
    (pc = "done" /\ tables \subseteq join_tables) =>
        tables \subseteq TablesBroughtIn

\* --------------------------------------------------------------------- C10
\* The table a filter's field is qualified with: that of the first schema
\* dimension of the name, else of the first schema metric of the name.
FilterTables(f) ==
    IF f.field \in SchemaDimensionNames
    THEN {semantic_layer_json.dimensions[
             FirstNamed(semantic_layer_json.dimensions, f.field)].table}
    ELSE IF f.field \in SchemaMetricNames
    THEN {semantic_layer_json.metrics[
             FirstNamed(semantic_layer_json.metrics, f.field)].table}
    ELSE {}

\* C10, as claimed: in a finished output the table of every WHERE predicate
\* whose field was qualified through the schema is named by FROM or by a JOIN.
C10_FilterTablesBroughtIn ==
    pc = "done" =>
        \A i \in 1..Len(QueryFilters) :
            QueryFilters[i].field \notin RequestedMetricNames =>
                FilterTables(QueryFilters[i]) \subseteq TablesBroughtIn

====
